---- MODULE Spec2Model ----
(***************************************************************************)
(* Model of adsl_streamlit3.py: a Streamlit application that keeps two     *)
(* datasets (ADSL, ADTTE) in session state and renders, among other pages, *)
(* a Kaplan-Meier plot per treatment arm (km_plot).                        *)
(*                                                                         *)
(* A DataFrame is a sequence of rows (records keyed by column name).  A    *)
(* numeric cell is [na, v]: pandas' NaN is na = TRUE.  A time in months is *)
(* the exact quotient num/den of AVAL / 30.4167; a survival probability is *)
(* the exact quotient num/den of the product-limit estimate.               *)
(***************************************************************************)
EXTENDS Integers, Sequences, FiniteSets, TLC

VARIABLES adsl_data, adtte_data, nav_option, shown, fig_km, last

vars == <<adsl_data, adtte_data, nav_option, shown, fig_km, last>>

-----------------------------------------------------------------------------
(* Values *)

\* Largest number of subjects (slots) in a generated pair of datasets.
MaxSubj == 6

\* len(anl) <= 5 is "not enough observations".
MinObs == 5

\* AVAL / 30.4167 = AVAL * 10000 / 304167.
DaysPerMonthNum == 304167
DaysPerMonthDen == 10000

Num(v) == [na |-> FALSE, v |-> v]
NA == [na |-> TRUE, v |-> 0]

None == [kind |-> "None", rows |-> <<>>]
DataFrame(rows) == [kind |-> "DataFrame", rows |-> rows]

Study == "CDISCPILOT01"
OtherStudy == "CDISCPILOT02"

\* pd.Categorical(..., categories=[...]) : the fixed, ordered category list.
Categories == <<"Placebo", "Xanomeline Low Dose", "Xanomeline High Dose">>

CategorySet == {Categories[i] : i \in DOMAIN Categories}

\* The code a value outside the categories is given by pd.Categorical.
NaNLabel == "NaN"

RECURSIVE Flatten(_)
Flatten(ss) == IF ss = <<>> THEN <<>> ELSE Head(ss) \o Flatten(Tail(ss))

RECURSIVE SortedSeq(_)
SortedSeq(S) ==
    IF S = {} THEN <<>>
    ELSE LET m == CHOOSE x \in S : \A y \in S : x <= y
         IN <<m>> \o SortedSeq(S \ {m})

-----------------------------------------------------------------------------
(* km_plot: the analysis table anl (lines 46-55) *)

\* adsl[(adsl['SAFFL'] == "Y") & (adsl['STUDYID'] == "CDISCPILOT01")]
SubjectMask(r) == r.SAFFL = "Y" /\ r.STUDYID = Study

\* adtte[adtte['STUDYID'] == "CDISCPILOT01"]
EventMask(r) == r.STUDYID = Study

\* [['STUDYID', 'USUBJID', 'TRT01A']]
SubjectColumns(r) ==
    [STUDYID |-> r.STUDYID, USUBJID |-> r.USUBJID, TRT01A |-> r.TRT01A]

\* [['STUDYID', 'USUBJID', 'AVAL', 'CNSR', 'PARAM', 'PARAMCD']]
EventColumns(r) ==
    [STUDYID |-> r.STUDYID, USUBJID |-> r.USUBJID, AVAL |-> r.AVAL,
     CNSR |-> r.CNSR, PARAM |-> r.PARAM, PARAMCD |-> r.PARAMCD]

MapSeq(s, F(_)) == [i \in DOMAIN s |-> F(s[i])]

\* Mutant of KeysMatch: the join made on STUDYID alone.
KeysMatchStudyOnly(l, r) == l.STUDYID = r.STUDYID

\* on=['STUDYID', 'USUBJID']
KeysMatch(l, r) == l.STUDYID = r.STUDYID /\ l.USUBJID = r.USUBJID

JoinedRow(l, r) ==
    [STUDYID |-> l.STUDYID, USUBJID |-> l.USUBJID, TRT01A |-> l.TRT01A,
     AVAL |-> r.AVAL, CNSR |-> r.CNSR, PARAM |-> r.PARAM, PARAMCD |-> r.PARAMCD]

\* how='inner': one row per matching (left, right) pair, in the order of
\* the left rows and, for one left row, of the right rows.
Merge(left, right) ==
    Flatten([i \in DOMAIN left |->
        MapSeq(SelectSeq(right, LAMBDA r : KeysMatch(left[i], r)),
               LAMBDA r : JoinedRow(left[i], r))])

\* pd.Categorical(x['TRT01A'], categories=[...]): a value that is not a
\* category becomes NaN; the row stays.
Categorical(label) == IF label \in CategorySet THEN label ELSE NaNLabel

\* x['AVAL'] / 30.4167 ; NaN / 30.4167 = NaN
Months(aval) ==
    IF aval.na THEN [na |-> TRUE, num |-> 0, den |-> DaysPerMonthNum]
    ELSE [na |-> FALSE, num |-> aval.v * DaysPerMonthDen, den |-> DaysPerMonthNum]

\* .assign(TRT01A=..., AVAL=...)
Assign(r) == [r EXCEPT !.TRT01A = Categorical(r.TRT01A), !.AVAL = Months(r.AVAL)]

Anl(adsl, adtte) ==
    MapSeq(Merge(MapSeq(SelectSeq(adsl.rows, SubjectMask), SubjectColumns),
                 MapSeq(SelectSeq(adtte.rows, EventMask), EventColumns)),
           Assign)

\* if len(anl) <= 5
TooFew(anl) == Len(anl) <= MinObs

\* Mutant of ArgsAfter: the month conversion written into the caller's
\* ADTTE frame (adtte['AVAL'] = adtte['AVAL'] / 30.4167).
ArgsAfterInPlace(adsl, adtte) ==
    [adsl |-> adsl,
     adtte |-> [adtte EXCEPT !.rows =
                   MapSeq(adtte.rows, LAMBDA r : [r EXCEPT !.AVAL = Months(r.AVAL)])]]

\* Boolean indexing, merge and assign all return new frames: the frames the
\* caller passed are the same objects with the same content after the call.
ArgsAfter(adsl, adtte) == [adsl |-> adsl, adtte |-> adtte]

-----------------------------------------------------------------------------
(* km_plot: one KaplanMeierFitter.fit per category (lines 61-74) *)

\* anl[anl['TRT01A'] == treatment]
TreatmentData(anl, treatment) == SelectSeq(anl, LAMBDA r : r.TRT01A = treatment)

\* The first argument of kmf.fit: treatment_data['AVAL'].
Durations(td) == [i \in DOMAIN td |-> td[i].AVAL]

\* event_observed=treatment_data['CNSR']: the censor column is handed over
\* as it is.
EventObserved(td) == [i \in DOMAIN td |-> td[i].CNSR]

One == [num |-> 1, den |-> 1]

\* The timeline of the fitted curve: time 0 (every subject enters at 0) and
\* every distinct duration, ascending.  All times share one denominator.
Timeline(T) == SortedSeq({0} \cup {T[i].num : i \in DOMAIN T})

\* Subjects whose duration is at least t.
AtRisk(T, t) == Cardinality({i \in DOMAIN T : T[i].num >= t})

\* Subjects removed at t with event_observed = 1.
Observed(T, E, t) == Cardinality({i \in DOMAIN T : T[i].num = t /\ E[i].v = 1})

\* S(t) = S(t-) * (1 - d/r)
Step(sPrev, r, d) == [num |-> sPrev.num * (r - d), den |-> sPrev.den * r]

RECURSIVE SurvivalTable(_, _, _, _, _)
SurvivalTable(T, E, ts, i, sPrev) ==
    IF i > Len(ts) THEN <<>>
    ELSE LET r == AtRisk(T, ts[i])
             d == Observed(T, E, ts[i])
             s == Step(sPrev, r, d)
         IN <<[t |-> [num |-> ts[i], den |-> DaysPerMonthNum],
               at_risk |-> r, observed |-> d, S |-> s]>>
            \o SurvivalTable(T, E, ts, i + 1, s)

HasNA(col) == \E i \in DOMAIN col : col[i].na

\* kmf.fit(durations, event_observed=..., label=...): raises ValueError on
\* an empty column and TypeError when a value is NaN; otherwise the fitted
\* event table and survival function, one row per time of the timeline.
Fit(T, E) ==
    IF Len(T) = 0 THEN [raised |-> "ValueError", table |-> <<>>]
    ELSE IF HasNA(T) \/ HasNA(E) THEN [raised |-> "TypeError", table |-> <<>>]
    ELSE [raised |-> "", table |-> SurvivalTable(T, E, Timeline(T), 1, One)]

\* Mutant of TraceY: the cumulative density 1 - S plotted instead of S.
TraceYCumulative(table) ==
    [i \in DOMAIN table |->
        [num |-> table[i].S.den - table[i].S.num, den |-> table[i].S.den]]

\* y=kmf.survival_function_[treatment]
TraceY(table) == [i \in DOMAIN table |-> table[i].S]

\* x=kmf.survival_function_.index
TraceX(table) == [i \in DOMAIN table |-> table[i].t]

\* go.Scatter(x=..., y=..., name=treatment); table is the fitter's
\* event_table (at_risk, observed) behind the plotted curve.
Scatter(treatment, table) ==
    [name |-> treatment, x |-> TraceX(table), y |-> TraceY(table), table |-> table]

\* The call made on the fitter for one category.
FitCall(treatment, td) ==
    [label |-> treatment, rows |-> td,
     durations |-> Durations(td), event_observed |-> EventObserved(td)]

\* for treatment in anl['TRT01A'].cat.categories: an exception raised by
\* fit leaves the loop and km_plot.
RECURSIVE FitLoop(_, _, _, _)
FitLoop(anl, i, fits, traces) ==
    IF i > Len(Categories)
    THEN [ret |-> "Figure", fits |-> fits, traces |-> traces]
    ELSE LET td == TreatmentData(anl, Categories[i])
             call == FitCall(Categories[i], td)
             out == Fit(call.durations, call.event_observed)
         IN IF out.raised # ""
            THEN [ret |-> out.raised, fits |-> Append(fits, call), traces |-> traces]
            ELSE FitLoop(anl, i + 1, Append(fits, call),
                         Append(traces, Scatter(Categories[i], out.table)))

\* km_plot(adsl, adtte).  ret: "None" (st.error and return None), "Figure",
\* or the exception that left the function.  n is the len(anl) compared.
km_plot(adsl, adtte) ==
    LET anl == Anl(adsl, adtte)
    IN IF TooFew(anl)
       THEN [called |-> TRUE, ret |-> "None", anl |-> anl, n |-> Len(anl),
             fits |-> <<>>, traces |-> <<>>]
       ELSE LET loop == FitLoop(anl, 1, <<>>, <<>>)
            IN [called |-> TRUE, ret |-> loop.ret, anl |-> anl, n |-> Len(anl),
                fits |-> loop.fits, traces |-> loop.traces]

NotCalled ==
    [called |-> FALSE, ret |-> "None", anl |-> <<>>, n |-> 0,
     fits |-> <<>>, traces |-> <<>>]

-----------------------------------------------------------------------------
(* Input datasets *)

ParamCd == "TTDE"
Param == "Time to First Dermatologic Event"

SubjectRow(id, k) ==
    [STUDYID |-> k.study, USUBJID |-> id, TRT01A |-> k.trt, SAFFL |-> k.saffl,
     AGE |-> k.age]

EventRow(id, k) ==
    [STUDYID |-> k.study, USUBJID |-> id, AVAL |-> k.aval, CNSR |-> k.cnsr,
     PARAM |-> Param, PARAMCD |-> k.paramcd]

Subj(study, trt, saffl) ==
    [study |-> study, trt |-> trt, saffl |-> saffl, age |-> Num(70)]
Evt(study, aval, cnsr, paramcd) ==
    [study |-> study, aval |-> aval, cnsr |-> cnsr, paramcd |-> paramcd]

\* What one subject contributes to the two files: its ADSL rows and its
\* ADTTE rows.  CNSR follows the ADaM convention of the files the
\* application reads (0: event observed, 1: censored).
SubjectKinds == <<
    [subj |-> <<Subj(Study, "Placebo", "Y")>>,
     evts |-> <<Evt(Study, Num(10), Num(0), ParamCd)>>],
    [subj |-> <<Subj(Study, "Placebo", "Y")>>,
     evts |-> <<Evt(Study, Num(20), Num(1), ParamCd)>>],
    [subj |-> <<Subj(Study, "Xanomeline Low Dose", "Y")>>,
     evts |-> <<Evt(Study, Num(15), Num(0), ParamCd)>>],
    [subj |-> <<Subj(Study, "Xanomeline High Dose", "Y")>>,
     evts |-> <<Evt(Study, Num(10), Num(1), ParamCd)>>],
    [subj |-> <<Subj(Study, "Xanomeline High Dose", "Y")>>,
     evts |-> <<Evt(Study, Num(20), Num(0), ParamCd)>>],
    [subj |-> <<Subj(Study, "Placebo", "Y")>>,
     evts |-> <<Evt(Study, Num(0), Num(1), ParamCd)>>],
    [subj |-> <<Subj(Study, "Screen Failure", "Y")>>,
     evts |-> <<Evt(Study, Num(10), Num(1), ParamCd)>>],
    [subj |-> <<Subj(Study, "Placebo", "Y")>>,
     evts |-> <<Evt(Study, NA, Num(1), ParamCd)>>],
    [subj |-> <<Subj(Study, "Placebo", "Y")>>,
     evts |-> <<Evt(Study, Num(10), NA, ParamCd)>>],
    [subj |-> <<Subj(Study, "Placebo", "N")>>,
     evts |-> <<Evt(Study, Num(10), Num(1), ParamCd)>>],
    [subj |-> <<Subj(OtherStudy, "Placebo", "Y")>>,
     evts |-> <<Evt(OtherStudy, Num(10), Num(1), ParamCd)>>],
    [subj |-> <<Subj(Study, "Placebo", "Y")>>,
     evts |-> <<>>],
    [subj |-> <<>>,
     evts |-> <<Evt(Study, Num(10), Num(1), ParamCd)>>],
    [subj |-> <<Subj(Study, "Placebo", "Y")>>,
     evts |-> <<Evt(Study, Num(10), Num(1), ParamCd),
                Evt(Study, Num(20), Num(0), "TTAE")>>]
>>

\* The sequences of at most n kinds, up to the order of the subjects: the
\* kinds of a sequence never decrease.
RECURSIVE KindSeqs(_)
KindSeqs(n) ==
    IF n = 0 THEN {<<>>}
    ELSE LET P == KindSeqs(n - 1)
         IN P \cup UNION {
                {Append(s, k) :
                    k \in (IF s = <<>> THEN 1 ELSE s[Len(s)]) .. Len(SubjectKinds)} :
                s \in {p \in P : Len(p) = n - 1}}

\* Subject i of the sequence has USUBJID i.
AdslOf(ks) ==
    DataFrame(Flatten([i \in DOMAIN ks |->
        MapSeq(SubjectKinds[ks[i]].subj, LAMBDA k : SubjectRow(i, k))]))

AdtteOf(ks) ==
    DataFrame(Flatten([i \in DOMAIN ks |->
        MapSeq(SubjectKinds[ks[i]].evts, LAMBDA k : EventRow(i, k))]))

Datasets == KindSeqs(MaxSubj)

-----------------------------------------------------------------------------
(* main(): the Kaplan-Meier Curve page (lines 207-214) *)

NoInput == [clicked |-> "none", reply |-> "none"]

RunKaplanMeier ==
    /\ nav_option' = "Kaplan-Meier Curve"
    /\ last' = NoInput
    /\ IF adsl_data.kind # "None" /\ adtte_data.kind # "None"
       THEN LET fig == km_plot(adsl_data, adtte_data)
                args == ArgsAfter(adsl_data, adtte_data)
            IN /\ fig_km' = fig
               /\ adsl_data' = args.adsl
               /\ adtte_data' = args.adtte
               /\ shown' = CASE fig.ret = "Figure" -> "plotly_chart"
                             [] fig.ret = "None" -> "error: Not enough observations"
                             [] OTHER -> fig.ret
       ELSE /\ fig_km' = NotCalled
            /\ shown' = "warning: both"
            /\ UNCHANGED <<adsl_data, adtte_data>>

\* The session state once a pair of files was uploaded: every pair of
\* datasets of at most MaxSubj subjects drawn from SubjectKinds.
InitKM ==
    /\ \E ks \in Datasets :
        /\ adsl_data = AdslOf(ks)
        /\ adtte_data = AdtteOf(ks)
    /\ nav_option = "Upload Files"
    /\ shown = "uploader"
    /\ fig_km = NotCalled
    /\ last = NoInput

NextKM == RunKaplanMeier

SpecKM == InitKM /\ [][NextKM]_vars

-----------------------------------------------------------------------------
(* Files and HTTP replies *)

NoFile == [present |-> FALSE, valid |-> FALSE, rows |-> <<>>]
XptFile(df) == [present |-> TRUE, valid |-> TRUE, rows |-> df.rows]
CorruptFile == [present |-> TRUE, valid |-> FALSE, rows |-> <<>>]

\* The pairs of files offered to the uploaders: six subjects over the three
\* arms, six subjects all on Placebo, three subjects.
AppDatasets == {<<1, 2, 3, 4, 5, 5>>, <<1, 1, 2, 2, 2, 2>>, <<1, 2, 3>>}

AdslFiles == {XptFile(AdslOf(ks)) : ks \in AppDatasets} \cup {CorruptFile}
AdtteFiles == {XptFile(AdtteOf(ks)) : ks \in AppDatasets} \cup {CorruptFile}

\* What the two GitHub URLs hold when they hold an XPT file.
GithubAdsl == XptFile(AdslOf(<<1, 2, 3, 4, 5, 5>>))
GithubAdtte == XptFile(AdtteOf(<<1, 2, 3, 4, 5, 5>>))

\* The outcomes of requests.get(url): the XPT file, bytes that are no XPT
\* file, a page of another content type, an HTTP error.
Replies == {"xpt", "corrupt", "html", "http_error"}

\* load_data(file): the dataframe pyreadstat.read_xport parses from the
\* bytes, or the exception it raises.
load_data(file) ==
    IF file.valid THEN [raised |-> "", df |-> DataFrame(file.rows)]
    ELSE [raised |-> "ReadstatError", df |-> None]

\* fetch_data_from_github(url): the content when the request succeeds with
\* content type application/octet-stream; otherwise st.error and None.
fetch_data_from_github(reply, file) ==
    CASE reply = "xpt" -> file
      [] reply = "corrupt" -> CorruptFile
      [] OTHER -> NoFile

\* load_data_from_github(content): any exception of load_data is caught,
\* st.error is shown and None is returned.
load_data_from_github(content) ==
    LET r == load_data(content)
    IN IF r.raised = "" THEN r.df ELSE None

-----------------------------------------------------------------------------
(* main() *)

\* The line of main() that first assigns each of its local names.
LocalAssignedAt == [github_adsl_url |-> 140, github_adtte_url |-> 142]

\* A local name read at line useLine has a value only when the line that
\* assigns it ran before; otherwise Python raises UnboundLocalError.
Bound(name, useLine) == LocalAssignedAt[name] < useLine

\* if st.button("Load ... from GitHub"): the session value after the block.
\* useLine is the line that reads the URL.
GithubButton(clickedThis, name, useLine, reply, file, current) ==
    IF ~clickedThis THEN [raised |-> "", data |-> current]
    ELSE IF ~Bound(name, useLine)
         THEN [raised |-> "UnboundLocalError", data |-> current]
         ELSE LET content == fetch_data_from_github(reply, file)
              IN IF content.present
                 THEN [raised |-> "", data |-> load_data_from_github(content)]
                 ELSE [raised |-> "", data |-> current]

\* if file is not None: st.session_state.x = load_data(file)
Uploaded(file, current) ==
    IF ~file.present THEN [raised |-> "", data |-> current]
    ELSE LET r == load_data(file)
         IN IF r.raised = "" THEN [raised |-> "", data |-> r.df]
            ELSE [raised |-> r.raised, data |-> current]

\* The Upload Files page (lines 125-155), statement by statement; an
\* exception ends the run and keeps what was stored before it.
UploadPage(clicked, reply, adsl_file, adtte_file) ==
    LET b1 == GithubButton(clicked = "adsl", "github_adsl_url", 130, reply,
                           GithubAdsl, adsl_data)
        b2 == IF b1.raised # "" THEN [raised |-> b1.raised, data |-> adtte_data]
              ELSE GithubButton(clicked = "adtte", "github_adtte_url", 135, reply,
                                GithubAdtte, adtte_data)
        u1 == IF b2.raised # "" THEN [raised |-> b2.raised, data |-> b1.data]
              ELSE Uploaded(adsl_file, b1.data)
        u2 == IF u1.raised # "" THEN [raised |-> u1.raised, data |-> b2.data]
              ELSE Uploaded(adtte_file, b2.data)
    IN [raised |-> u2.raised, adsl |-> u1.data, adtte |-> u2.data]

RunUploadFiles ==
    \E clicked \in {"none", "adsl", "adtte"}, reply \in Replies,
       adsl_file \in AdslFiles \cup {NoFile}, adtte_file \in AdtteFiles \cup {NoFile} :
        LET out == UploadPage(clicked, reply, adsl_file, adtte_file)
        IN /\ nav_option' = "Upload Files"
           /\ last' = [clicked |-> clicked,
                       reply |-> IF clicked = "none" THEN "none" ELSE reply]
           /\ adsl_data' = out.adsl
           /\ adtte_data' = out.adtte
           /\ shown' = IF out.raised # "" THEN out.raised ELSE "uploader"
           /\ fig_km' = NotCalled

RunInstructions ==
    /\ nav_option' = "Instructions"
    /\ shown' = "instructions"
    /\ last' = NoInput
    /\ fig_km' = NotCalled
    /\ UNCHANGED <<adsl_data, adtte_data>>

RunRawData ==
    /\ nav_option' = "Raw Data"
    /\ shown' = IF adsl_data.kind # "None" /\ adtte_data.kind # "None"
                THEN "dataframes" ELSE "warning: both"
    /\ last' = NoInput
    /\ fig_km' = NotCalled
    /\ UNCHANGED <<adsl_data, adtte_data>>

\* subject_choices
SubjectChoices ==
    [Age |-> "AGE", BaselineBMI |-> "BMIBL", BaselineHeight |-> "HEIGHTBL",
     BaselineWeight |-> "WEIGHTBL", YearsOfEducation |-> "EDUCLVL"]

\* The columns of the ADSL files of the model.
AdslColumns == {"STUDYID", "USUBJID", "TRT01A", "SAFFL", "AGE"}

RunVisualization ==
    \E selected_subject \in DOMAIN SubjectChoices :
        /\ nav_option' = "Visualization"
        /\ shown' = IF adsl_data.kind # "None"
                    THEN IF SubjectChoices[selected_subject] \in AdslColumns
                         THEN "boxplot" ELSE "selectbox"
                    ELSE "warning: adsl"
        /\ last' = NoInput
        /\ fig_km' = NotCalled
        /\ UNCHANGED <<adsl_data, adtte_data>>

\* The session state main() creates on the first run, on the default page.
Init ==
    /\ adsl_data = None
    /\ adtte_data = None
    /\ nav_option = "Instructions"
    /\ shown = "instructions"
    /\ fig_km = NotCalled
    /\ last = NoInput

Next ==
    \/ RunInstructions
    \/ RunUploadFiles
    \/ RunRawData
    \/ RunVisualization
    \/ RunKaplanMeier

Spec == Init /\ [][Next]_vars

-----------------------------------------------------------------------------
(* Claims about km_plot, checked under SpecKM *)

KnownArm(r) == r.TRT01A \in CategorySet

Complete(r) == ~r.AVAL.na /\ ~r.CNSR.na

RowsOf(seq) == {seq[i] : i \in DOMAIN seq}

TraceNamed(c) == {tr \in RowsOf(fig_km.traces) : tr.name = c}

ArmRows(c) == SelectSeq(fig_km.anl, LAMBDA r : r.TRT01A = c)

\* C1 (as claimed): a cohort of 5 or fewer entries gives the InsufficientData
\* outcome (None), and a cohort of 6 or more entries from a valid join (every
\* entry complete and on a known arm) gives a figure.
C1_ThresholdDecidesOutcome ==
    fig_km.called =>
        /\ (fig_km.n <= 5 => fig_km.ret = "None")
        /\ (fig_km.n >= 6 /\ (\A r \in RowsOf(fig_km.anl) : Complete(r) /\ KnownArm(r))
                => fig_km.ret = "Figure")

\* C2 (as claimed): every pair handed to the estimator has
\* event_observed = NOT CNSR (CNSR = 1 is censored, CNSR = 0 is an event).
C2_EventIsNotCensor ==
    fig_km.ret = "Figure" =>
        \A f \in RowsOf(fig_km.fits) : \A i \in DOMAIN f.rows :
            f.event_observed[i].v = 1 - f.rows[i].CNSR.v

\* C3 (as claimed): every cohort entry, and every entry handed to the
\* estimator, belongs to a safety-population subject of the study present in
\* both tables and has a non-missing time and a non-missing censor value.
C3_EntriesJoinedAndComplete ==
    \A r \in RowsOf(fig_km.anl) \cup UNION {RowsOf(f.rows) : f \in RowsOf(fig_km.fits)} :
        /\ \E a \in RowsOf(adsl_data.rows) :
              a.USUBJID = r.USUBJID /\ a.STUDYID = Study /\ a.SAFFL = "Y"
        /\ \E e \in RowsOf(adtte_data.rows) :
              e.USUBJID = r.USUBJID /\ e.STUDYID = Study
        /\ r.STUDYID = Study
        /\ ~r.AVAL.na
        /\ ~r.CNSR.na

\* C4 (as claimed): an entry whose arm label is not one of the three fixed
\* labels is not in the cohort, is not counted in the size compared with the
\* threshold, and is in no arm's estimate.
C4_UnknownArmExcluded ==
    fig_km.called =>
        /\ \A r \in RowsOf(fig_km.anl) : KnownArm(r)
        /\ fig_km.n = Len(SelectSeq(fig_km.anl, KnownArm))
        /\ \A f \in RowsOf(fig_km.fits) : \A r \in RowsOf(f.rows) : KnownArm(r)

\* C5 (as claimed): when the cohort passes the size threshold and an arm has
\* no entry, the loop is not aborted: a figure is returned with a curve for
\* every arm that has entries.
C5_EmptyArmDoesNotAbort ==
    (/\ fig_km.called
     /\ fig_km.n > 5
     /\ \A r \in RowsOf(fig_km.anl) : Complete(r)
     /\ \E c \in CategorySet : ArmRows(c) = <<>>)
    => /\ fig_km.ret = "Figure"
       /\ \A c \in CategorySet : ArmRows(c) # <<>> => TraceNamed(c) # {}

\* The arm's entries are exactly the given (raw time, CNSR) pairs, one
\* entry per pair.
ArmIs(c, pairs) ==
    /\ Len(ArmRows(c)) = Cardinality(pairs)
    /\ \A pr \in pairs : \E r \in RowsOf(ArmRows(c)) :
          /\ Complete(r)
          /\ r.AVAL.num = pr[1] * DaysPerMonthDen
          /\ r.CNSR.v = pr[2]

PointAt(tr, days) ==
    {pt \in RowsOf(tr.table) : pt.t.num = days * DaysPerMonthDen}

\* C6 (as claimed): an arm with exactly S1 (time 10, event observed, CNSR 0)
\* and S2 (time 20, censored, CNSR 1) has at t=10 at-risk 2, events 1,
\* survival 1/2 and at t=20 no event and survival 1/2; an arm whose only
\* subject has an observed event at t=15 has survival 0 there, at-risk 1,
\* events 1.
C6_ScenarioCurves ==
    fig_km.ret = "Figure" =>
      \A c \in CategorySet : \A tr \in TraceNamed(c) :
        /\ ArmIs(c, {<<10, 0>>, <<20, 1>>}) =>
              /\ \E pt \in PointAt(tr, 10) :
                    pt.at_risk = 2 /\ pt.observed = 1 /\ 2 * pt.S.num = pt.S.den
              /\ \E pt \in PointAt(tr, 20) :
                    pt.observed = 0 /\ 2 * pt.S.num = pt.S.den
        /\ ArmIs(c, {<<15, 0>>}) =>
              \E pt \in PointAt(tr, 15) :
                    pt.at_risk = 1 /\ pt.observed = 1 /\ pt.S.num = 0

NonIncreasing(y) ==
    \A i \in 1 .. Len(y) - 1 : y[i].num * y[i + 1].den >= y[i + 1].num * y[i].den

InUnitInterval(y) ==
    \A i \in DOMAIN y : y[i].den > 0 /\ 0 <= y[i].num /\ y[i].num <= y[i].den

EventsAtZero(c) ==
    {f \in RowsOf(fig_km.fits) : f.label = c /\
        \E i \in DOMAIN f.rows :
            f.durations[i].num = 0 /\ f.event_observed[i].v = 1}

Ids(rows) == {rows[i].USUBJID : i \in DOMAIN rows}

C9_InputsNotMutated ==
    [][nav_option' = "Kaplan-Meier Curve" =>
          adsl_data' = adsl_data /\ adtte_data' = adtte_data]_vars

\* After a figure was returned the session still holds a raw AVAL of 10 days
\* and a label outside the categories, while the cohort holds their
\* converted values.
C9_Witness ==
    /\ fig_km.ret = "Figure"
    /\ \E e \in RowsOf(adtte_data.rows) : e.AVAL = Num(10)
    /\ \E a \in RowsOf(adsl_data.rows) : a.TRT01A = "Screen Failure"
    /\ \E r \in RowsOf(fig_km.anl) : r.TRT01A = NaNLabel

-----------------------------------------------------------------------------
(* Claims about the pages, checked under Spec *)

\* C10 (as claimed): after a run of the Upload Files page in which "Load
\* ADSL from GitHub" (or "Load ADTTE from GitHub") was clicked and the URL
\* answered with an XPT file that parses, the session state holds the parsed
\* dataset.
C10_GithubButtonLoads ==
    /\ (last.clicked = "adsl" /\ last.reply = "xpt"
            => adsl_data = DataFrame(GithubAdsl.rows))
    /\ (last.clicked = "adtte" /\ last.reply = "xpt"
            => adtte_data = DataFrame(GithubAdtte.rows))

====
